---- MODULE Spec2Model ----
(***************************************************************************)
(* A model of thonny/plugins/micropython/minipip.py: the archive inspector *)
(* (_install_single_upip_compatible_from_url), the metadata client         *)
(* (_fetch_metadata, _resolve_version), the resolution loop                *)
(* (_install_all_upip_compatible), the pip fallback and install itself.    *)
(*                                                                         *)
(* Strings the code takes apart (archive member names, lines of            *)
(* requires.txt, urls) are sequences of tokens; a token is a run of        *)
(* characters that none of the code's patterns can split.                  *)
(***************************************************************************)
EXTENDS Integers, Sequences, FiniteSets, TLC

VARIABLES
    \* ---- _install_single_upip_compatible_from_url, step by step
    tar,            \* the members of the downloaded archive, in archive order
    pos,            \* index of the next member the for-loop will visit
    content,        \* the dict `content`: <<[path, data]>> in insertion order
    deps,           \* the list `deps`
    wpos,           \* index of the next key of `content` the write loop visits
    ipc,            \* position of the inspector
    disk0,          \* the target directory as it was when the call began
    \* ---- the caller's objects and the module's globals
    caller_spec,        \* the `spec` argument of install: a str or a list
    caller_index_urls,  \* the `index_urls` argument; <<>> stands for None too
    default_index_urls, \* the module-level list DEFAULT_INDEX_URLS
    sys_imported,       \* whether the name `sys` is bound (line 341)
    cli,                \* the parsed command line `args` of main, if main runs
    \* ---- install
    pc,             \* position of the run
    err,            \* the exception that left install, when pc = "raised"
    exit_code,      \* the argument of exit(), when pc = "exited"
    stderr,         \* what was printed to sys.stderr
    specs,          \* install's local `specs`
    index_urls,     \* install's local `index_urls`
    \* ---- _install_all_upip_compatible
    specs_to_be_processed,
    installed_specs,
    pip_specs,
    spec,           \* the spec popped last
    \* ---- _fetch_metadata
    fi,             \* position of the for-loop in index_urls
    ver_specs,      \* the local `ver_specs`
    current_version,
    ver,            \* what _resolve_version returned last
    meta,           \* the document _fetch_metadata returned
    \* ---- what the run did to the outside world
    queried,        \* the requests of the current _fetch_metadata call
    fetch_count,    \* spec -> number of _fetch_metadata calls made for it
    inspect_count,  \* spec -> number of inspector calls made for it
    pip_calls,      \* the command lines of the pip processes started
    processed,      \* the specs that got past line 70, in that order
    discovered,     \* the specs line 98 appended: <<[dep, from]>>, in that order
    inspected,      \* the last inspector call: its outcome and the lines it read
    pip_returncode, \* the exit status of the pip process, -1 while none has ended
    indexes_used,   \* the index list of each install call so far, as it began
    disk            \* the target directory: destination path -> node

archVars == <<tar, pos, content, deps, wpos, ipc, disk0>>

callerVars == <<caller_spec, caller_index_urls, default_index_urls, sys_imported,
                cli>>

installVars == <<pc, err, exit_code, stderr, specs, index_urls>>

loopVars == <<specs_to_be_processed, installed_specs, pip_specs, spec>>

fetchVars == <<fi, ver_specs, current_version, ver, meta, queried>>

logVars == <<fetch_count, inspect_count, pip_calls>>

histVars == <<processed, discovered, inspected, pip_returncode, indexes_used>>

engVars == <<callerVars, installVars, loopVars, fetchVars, logVars, histVars>>

vars == <<archVars, engVars, disk>>

(***************************************************************************)
(* String helpers                                                          *)
(***************************************************************************)

\* pat in s  (Python's substring test, on tokens)
Contains(s, pat) ==
    \E i \in 1..(Len(s) - Len(pat) + 1) : SubSeq(s, i, i + Len(pat) - 1) = pat

\* s.startswith(pat)
StartsWith(s, pat) ==
    /\ Len(pat) <= Len(s)
    /\ SubSeq(s, 1, Len(pat)) = pat

\* s.endswith(pat)
EndsWith(s, pat) ==
    /\ Len(pat) <= Len(s)
    /\ SubSeq(s, Len(s) - Len(pat) + 1, Len(s)) = pat

\* index of the first "/" of a name, 0 when it has none
FirstSlash(name) ==
    IF \E i \in 1..Len(name) : name[i] = "/"
    THEN CHOOSE i \in 1..Len(name) :
            /\ name[i] = "/"
            /\ \A j \in 1..(i - 1) : name[j] # "/"
    ELSE 0

\* index of the last "/" of a path, 0 when it has none
LastSlash(path) ==
    IF \E i \in 1..Len(path) : path[i] = "/"
    THEN CHOOSE i \in 1..Len(path) :
            /\ path[i] = "/"
            /\ \A j \in (i + 1)..Len(path) : path[j] # "/"
    ELSE 0

\* info.name.split("/", maxsplit=1)[1], or "" when the name has no "/"
RelName(name) ==
    IF FirstSlash(name) = 0 THEN <<>>
    ELSE SubSeq(name, FirstSlash(name) + 1, Len(name))

\* the first path segment of a member name
DistName(name) ==
    IF FirstSlash(name) = 0 THEN name
    ELSE SubSeq(name, 1, FirstSlash(name) - 1)

Whitespace == {" ", "\t"}

RECURSIVE LStrip(_)
LStrip(line) ==
    IF line # <<>> /\ Head(line) \in Whitespace THEN LStrip(Tail(line)) ELSE line

RECURSIVE RStrip(_)
RStrip(line) ==
    IF line # <<>> /\ line[Len(line)] \in Whitespace
    THEN RStrip(SubSeq(line, 1, Len(line) - 1))
    ELSE line

\* bytes.strip()
Strip(line) == RStrip(LStrip(line))

\* bytes.decode(): the str made of the line's characters
RECURSIVE Decode(_)
Decode(line) ==
    IF line = <<>> THEN "" ELSE Head(line) \o Decode(Tail(line))

(***************************************************************************)
(* The target directory.  A destination path is the member's root-relative *)
(* name (os.path.join(target_dir, rel_name) with target_dir left out); the *)
(* empty path is target_dir itself.                                        *)
(***************************************************************************)

DirNode == [isdir |-> TRUE, data |-> <<>>]

FileNode(bytes) == [isdir |-> FALSE, data |-> bytes]

\* os.path.dirname(path)
DirName(path) ==
    IF LastSlash(path) = 0 THEN <<>> ELSE SubSeq(path, 1, LastSlash(path) - 1)

\* path and every directory above it, below target_dir
PathChain(path) ==
    ({SubSeq(path, 1, i - 1) : i \in {j \in 1..Len(path) : path[j] = "/"}}
        \cup {path}) \ {<<>>}

\* os.makedirs(path, exist_ok=True): fails when a file is in the way
MakeDirs(d, path) ==
    IF \E p \in PathChain(path) : p \in DOMAIN d /\ ~d[p].isdir
    THEN [ok |-> FALSE, disk |-> d]
    ELSE [ok |-> TRUE,
          disk |-> [p \in DOMAIN d \cup PathChain(path) |->
                        IF p \in DOMAIN d THEN d[p] ELSE DirNode]]

\* a variant of OpenWrite that opens the file and never writes the data
OpenWriteNoData(d, path, bytes) ==
    IF path = <<>> \/ (path \in DOMAIN d /\ d[path].isdir)
    THEN [ok |-> FALSE, disk |-> d]
    ELSE [ok |-> TRUE,
          disk |-> [p \in DOMAIN d \cup {path} |->
                        IF p = path THEN FileNode(<<>>) ELSE d[p]]]

\* open(path, "wb").write(data): fails when path names a directory
OpenWrite(d, path, bytes) ==
    IF path = <<>> \/ (path \in DOMAIN d /\ d[path].isdir)
    THEN [ok |-> FALSE, disk |-> d]
    ELSE [ok |-> TRUE,
          disk |-> [p \in DOMAIN d \cup {path} |->
                        IF p = path THEN FileNode(bytes) ELSE d[p]]]

(***************************************************************************)
(* _install_single_upip_compatible_from_url                                *)
(***************************************************************************)

NoneData == [none |-> TRUE, bytes |-> <<>>]

BytesData(bytes) == [none |-> FALSE, bytes |-> bytes]

\* content[path] = data: a key already present keeps its place
DictSet(dict, path, data) ==
    IF \E i \in 1..Len(dict) : dict[i].path = path
    THEN [i \in 1..Len(dict) |->
            IF dict[i].path = path THEN [path |-> path, data |-> data] ELSE dict[i]]
    ELSE Append(dict, [path |-> path, data |-> data])

\* a variant of IsSetupPy that compares the whole member name
IsSetupPyFullName(info) == info.name = <<"setup.py">>

\* the test of line 123, on the member's root-relative name
IsSetupPy(info) == RelName(info.name) = <<"setup.py">>

\* the test of line 127
IsPkgInfo(info) == Contains(RelName(info.name), <<".egg-info", "/", "PKG-INFO">>)

\* the test of line 130
IsRequires(info) == Contains(RelName(info.name), <<".egg-info", "/", "requires.txt">>)

\* the test of line 137
IsEggInfo(info) == Contains(RelName(info.name), <<".egg-info">>)

\* a variant of RequireLines that tests the raw line and keeps it unstripped
RECURSIVE RequireLinesNoStrip(_)
RequireLinesNoStrip(lines) ==
    IF lines = <<>> THEN <<>>
    ELSE LET line == Head(lines)
         IN  IF line # <<>> /\ ~StartsWith(line, <<"#">>)
             THEN <<Decode(line)>> \o RequireLinesNoStrip(Tail(lines))
             ELSE RequireLinesNoStrip(Tail(lines))

\* lines 131-134: the specs read from the lines of one requires.txt
RECURSIVE RequireLines(_)
RequireLines(lines) ==
    IF lines = <<>> THEN <<>>
    ELSE LET line == Strip(Head(lines))
         IN  IF line # <<>> /\ ~StartsWith(line, <<"#">>)
             THEN <<Decode(line)>> \o RequireLines(Tail(lines))
             ELSE RequireLines(Tail(lines))

\* the body of the for-loop, lines 118-143, on st = [content, deps, raised]
ScanEntry(st, info) ==
    IF IsSetupPy(info) THEN [st EXCEPT !.raised = "NotUpipCompatible"]
    ELSE IF IsPkgInfo(info) THEN st
    ELSE IF IsRequires(info) THEN
        \* tar.extractfile gives None for a member that is no regular file
        IF info.type # "file" THEN [st EXCEPT !.raised = "TypeError"]
        ELSE [st EXCEPT !.deps = st.deps \o RequireLines(info.bytes)]
    ELSE IF IsEggInfo(info) THEN st
    ELSE IF info.type = "dir"
        THEN [st EXCEPT !.content = DictSet(st.content, RelName(info.name), NoneData)]
    ELSE IF info.type = "file"
        THEN [st EXCEPT !.content =
                DictSet(st.content, RelName(info.name), BytesData(info.bytes))]
    ELSE st

\* the body of the write loop, lines 148-154
WriteOne(d, item) ==
    IF item.data.none THEN MakeDirs(d, item.path)
    ELSE LET made == MakeDirs(d, DirName(item.path))
         IN  IF ~made.ok THEN made
             ELSE OpenWrite(made.disk, item.path, item.data.bytes)

(***************************************************************************)
(* Archives the inspector is run on                                        *)
(***************************************************************************)

MaxEntries == 3

Member(name, type, bytes) == [name |-> name, type |-> type, bytes |-> bytes]

\* requires.txt with a plain line, a blank line, an indented comment and a
\* line with white space around it
ReqBytes == << <<"a">>, <<>>, <<" ", "#", "x">>, <<" ", "b", "\t">> >>

ArchiveMembers ==
    { Member(<<"pkg">>, "dir", <<>>),
      Member(<<"README">>, "file", << <<"r">> >>),
      Member(<<"pkg", "/", "m.py">>, "file", << <<"x">> >>),
      Member(<<"other", "/", "m.py">>, "file", << <<"y">> >>),
      Member(<<"pkg", "/", "sub">>, "dir", <<>>),
      Member(<<"pkg", "/", "sub", "/", "n.py">>, "file", << <<"z">> >>),
      Member(<<"pkg", "/", "lnk">>, "fifo", <<>>),
      Member(<<"pkg", "/", "setup.py">>, "file", << <<"s">> >>),
      Member(<<"pkg", "/", "sub", "/", "setup.py">>, "file", << <<"s">> >>),
      Member(<<"pkg", "/", "pkg", ".egg-info", "/", "requires.txt">>, "file", ReqBytes),
      Member(<<"pkg", "/", "pkg", ".egg-info", "/", "requires.txt", ".orig">>,
             "file", << <<"c">> >>),
      Member(<<"pkg", "/", "old", ".egg-info", "/", "requires.txt">>, "dir", <<>>),
      Member(<<"pkg", "/", "pkg", ".egg-info", "/", "PKG-INFO">>, "file", << <<"i">> >>),
      Member(<<"pkg", "/", "pkg", ".egg-info", "/", "SOURCES.txt">>, "file", << <<"m.py">> >>),
      Member(<<"pkg", "/", "notes", ".egg-info", ".txt">>, "file", << <<"t">> >>) }

RECURSIVE SeqsUpTo(_, _)
SeqsUpTo(S, n) ==
    IF n = 0 THEN {<<>>}
    ELSE LET shorter == SeqsUpTo(S, n - 1)
         IN  shorter \cup {Append(q, x) : q \in shorter, x \in S}

Archives == SeqsUpTo(ArchiveMembers, MaxEntries)

EmptyDisk == [p \in {} |-> DirNode]

\* target directories a call may find: empty, or holding an earlier m.py
InitialDisks ==
    { EmptyDisk,
      [p \in {<<"m.py">>} |-> FileNode(<< <<"old">> >>)] }

\* the run of install is not part of the inspector's step-by-step runs
EngineIdle ==
    /\ caller_spec = [isstr |-> FALSE, str |-> "", list |-> <<>>]
    /\ caller_index_urls = <<>>
    /\ default_index_urls = <<"https://micropython.org/pi", "https://pypi.org/pypi">>
    /\ sys_imported = TRUE
    /\ cli = [specs |-> <<>>, requirement_files |-> <<>>, index_url |-> "",
              quiet |-> FALSE, verbose |-> FALSE]
    /\ pc = "idle"
    /\ err = "none"
    /\ exit_code = 0
    /\ stderr = <<>>
    /\ specs = <<>>
    /\ index_urls = <<>>
    /\ specs_to_be_processed = <<>>
    /\ installed_specs = {}
    /\ pip_specs = <<>>
    /\ spec = ""
    /\ fi = 1
    /\ ver_specs = <<>>
    /\ current_version = "None"
    /\ ver = "None"
    /\ meta = [info_version |-> "None", releases |-> <<>>, origin |-> ""]
    /\ queried = <<>>
    /\ fetch_count = <<>>
    /\ inspect_count = <<>>
    /\ pip_calls = <<>>
    /\ processed = <<>>
    /\ discovered = <<>>
    /\ inspected = [outcome |-> "none", read |-> <<>>]
    /\ pip_returncode = -1
    /\ indexes_used = <<>>

\* the inspector's step-by-step variables while install runs it as one call
ArchiveIdle ==
    /\ tar = <<>>
    /\ pos = 1
    /\ content = <<>>
    /\ deps = <<>>
    /\ wpos = 1
    /\ ipc = "idle"
    /\ disk0 = EmptyDisk

(***************************************************************************)
(* The inspector, one loop iteration per step                              *)
(***************************************************************************)

InitArchive ==
    /\ tar \in Archives
    /\ disk \in InitialDisks
    /\ disk0 = disk
    /\ pos = 1
    /\ content = <<>>
    /\ deps = <<>>
    /\ wpos = 1
    /\ ipc = "walk"
    /\ EngineIdle

\* a variant of WalkEntry that extracts each member as soon as it is staged
WalkEntryEager ==
    /\ ipc = "walk"
    /\ pos <= Len(tar)
    /\ LET st == ScanEntry([content |-> content, deps |-> deps, raised |-> "no"],
                           tar[pos])
       IN  /\ content' = st.content
           /\ deps' = st.deps
           /\ IF st.raised = "no"
              THEN /\ pos' = pos + 1
                   /\ ipc' = ipc
                   /\ disk' = IF st.content = content THEN disk
                              ELSE WriteOne(disk, st.content[Len(st.content)]).disk
              ELSE /\ pos' = pos
                   /\ ipc' = st.raised
                   /\ disk' = disk
    /\ UNCHANGED <<tar, wpos, disk0, engVars>>

\* one iteration of `for info in tar`
WalkEntry ==
    /\ ipc = "walk"
    /\ pos <= Len(tar)
    /\ LET st == ScanEntry([content |-> content, deps |-> deps, raised |-> "no"],
                           tar[pos])
       IN  /\ content' = st.content
           /\ deps' = st.deps
           /\ IF st.raised = "no"
              THEN /\ pos' = pos + 1
                   /\ ipc' = ipc
              ELSE /\ pos' = pos
                   /\ ipc' = st.raised
    /\ UNCHANGED <<tar, wpos, disk, disk0, engVars>>

\* the for-loop is exhausted: line 146, the write loop starts
WalkDone ==
    /\ ipc = "walk"
    /\ pos > Len(tar)
    /\ ipc' = "write"
    /\ UNCHANGED <<tar, pos, content, deps, wpos, disk, disk0, engVars>>

\* one iteration of `for path in content`
WriteEntry ==
    /\ ipc = "write"
    /\ wpos <= Len(content)
    /\ LET r == WriteOne(disk, content[wpos])
       IN  /\ disk' = r.disk
           /\ IF r.ok
              THEN /\ wpos' = wpos + 1
                   /\ ipc' = ipc
              ELSE /\ wpos' = wpos
                   /\ ipc' = "OSError"
    /\ UNCHANGED <<tar, pos, content, deps, disk0, engVars>>

\* line 156
ReturnDeps ==
    /\ ipc = "write"
    /\ wpos > Len(content)
    /\ ipc' = "returned"
    /\ UNCHANGED <<tar, pos, content, deps, wpos, disk, disk0, engVars>>

NextArchive == WalkEntry \/ WalkDone \/ WriteEntry \/ ReturnDeps

SpecArchive == InitArchive /\ [][NextArchive]_vars

(***************************************************************************)
(* Requirements and versions                                               *)
(***************************************************************************)

MP_ORG_INDEX == "https://micropython.org/pi"

PYPI_INDEX == "https://pypi.org/pypi"

\* an index of the caller's own
OTHER_INDEX == "https://example.org/pypi"

Clause(op, version) == [op |-> op, ver |-> version]

\* pkg_resources.Requirement.parse(spec): project_name and specs of the raw
\* spec strings that occur in a run; ok is FALSE where parse raises
ParseReq(s) ==
    CASE s = "a"      -> [ok |-> TRUE, project_name |-> "a", specs |-> <<>>]
      [] s = "b"      -> [ok |-> TRUE, project_name |-> "b", specs |-> <<>>]
      [] s = "c"      -> [ok |-> TRUE, project_name |-> "c", specs |-> <<>>]
      [] s = "b>=1.0" -> [ok |-> TRUE, project_name |-> "b",
                          specs |-> <<Clause(">=", "1.0")>>]
      [] s = "c==0.9" -> [ok |-> TRUE, project_name |-> "c",
                          specs |-> <<Clause("==", "0.9")>>]
      [] s = "b>=0.10,!=1.0" ->
                         [ok |-> TRUE, project_name |-> "b",
                          specs |-> <<Clause(">=", "0.10"), Clause("!=", "1.0")>>]
      [] OTHER        -> [ok |-> FALSE, project_name |-> "", specs |-> <<>>]

\* pkg_resources.parse_version(ver) as <<major, minor, phase>>; the phase of
\* a pre-release is 0 and that of a final release is 1
VersionKey(version) ==
    CASE version = "0.9"   -> <<0, 9, 1>>
      [] version = "0.10"  -> <<0, 10, 1>>
      [] version = "1.0"   -> <<1, 0, 1>>
      [] version = "2.0b1" -> <<2, 0, 0>>

\* the first digit of a number below 100
LeadDigit(n) == IF n >= 10 THEN n \div 10 ELSE n

\* a variant of KeyLess that compares the minor number as text
KeyLessLexical(k1, k2) ==
    \/ k1[1] < k2[1]
    \/ k1[1] = k2[1] /\ LeadDigit(k1[2]) < LeadDigit(k2[2])
    \/ k1[1] = k2[1] /\ LeadDigit(k1[2]) = LeadDigit(k2[2]) /\ k1[2] < k2[2]
    \/ k1[1] = k2[1] /\ k1[2] = k2[2] /\ k1[3] < k2[3]

\* k1 < k2 in version precedence
KeyLess(k1, k2) ==
    \/ k1[1] < k2[1]
    \/ k1[1] = k2[1] /\ k1[2] < k2[2]
    \/ k1[1] = k2[1] /\ k1[2] = k2[2] /\ k1[3] < k2[3]

\* one clause of a requirement, with pre-releases admitted
ClauseHolds(c, version) ==
    CASE c.op = ">=" -> ~KeyLess(VersionKey(version), VersionKey(c.ver))
      [] c.op = "==" -> VersionKey(version) = VersionKey(c.ver)
      [] c.op = "!=" -> VersionKey(version) # VersionKey(c.ver)

\* `ver in req`: Requirement.__contains__, specifier.contains(ver, prereleases=True)
InReq(version, req) ==
    \A i \in 1..Len(req.specs) : ClauseHolds(req.specs[i], version)

\* main_meta["releases"][ver]
Assets(doc, version) ==
    LET i == CHOOSE j \in 1..Len(doc.releases) : doc.releases[j].version = version
    IN  doc.releases[i].assets

HasRelease(doc, version) ==
    \E i \in 1..Len(doc.releases) : doc.releases[i].version = version

NoVersion == "None"

\* _resolve_version: lines 249-258.  sorted(..., key=parse_version)[-1] is the
\* last of the versions of greatest key, in the order of the releases mapping.
resolve_version(req, main_meta) ==
    LET matching == {i \in 1..Len(main_meta.releases) :
                        /\ InReq(main_meta.releases[i].version, req)
                        /\ Len(main_meta.releases[i].assets) > 0}
        Key(i) == VersionKey(main_meta.releases[i].version)
    IN  IF matching = {} THEN NoVersion
        ELSE LET best == CHOOSE i \in matching :
                            \A j \in matching :
                                \/ KeyLess(Key(j), Key(i))
                                \/ (Key(j) = Key(i) /\ j <= i)
             IN  main_meta.releases[best].version

(***************************************************************************)
(* What the indexes may answer                                             *)
(***************************************************************************)

Asset(url) == [url |-> url]

TarGzUrl == <<"https://files/", "pkg-1.0", ".tar.gz">>

WheelUrl == <<"https://files/", "pkg-1.0", "-py3-none-any", ".whl">>

ZippedTarUrl == <<"https://files/", "pkg-1.0", ".tar.gz", ".zip">>

Release(version, assets) == [version |-> version, assets |-> assets]

\* origin is the index a document was received from (none for a document at rest)
Doc(current, releases) ==
    [info_version |-> current, releases |-> releases, origin |-> ""]

\* metadata documents: info.version and the releases mapping, in document order
Docs ==
    { Doc("1.0", <<Release("1.0", <<Asset(TarGzUrl)>>)>>),
      Doc("1.0", <<Release("2.0b1", <<Asset(TarGzUrl)>>),
                   Release("0.9", <<Asset(TarGzUrl)>>),
                   Release("1.0", <<Asset(TarGzUrl)>>)>>),
      Doc("1.0", <<Release("1.0", <<Asset(TarGzUrl), Asset(WheelUrl)>>)>>),
      Doc("1.0", <<Release("1.0", <<Asset(ZippedTarUrl)>>)>>),
      Doc("1.0", <<Release("0.9", <<Asset(WheelUrl)>>), Release("1.0", <<>>)>>),
      Doc("0.10", <<Release("0.9", <<Asset(TarGzUrl)>>),
                    Release("0.10", <<Asset(TarGzUrl)>>)>>) }

\* the answer to GET {index}/{name}/json
MainResponses ==
    {[status |-> "404"], [status |-> "500"], [status |-> "unreachable"]}
        \cup {[status |-> "200", doc |-> d] : d \in Docs}

\* the answer to GET {index}/{name}/{ver}/json: when it is a document, it is
\* the package's document with info.version set to the version asked for
VersionStatuses == {"404", "500", "unreachable", "200"}

VersionDoc(main_meta, version) == [main_meta EXCEPT !.info_version = version]

(***************************************************************************)
(* The inspector as one call                                               *)
(***************************************************************************)

\* the for-loop of lines 117-143 from member i on; stops where it raises
RECURSIVE ScanFrom(_, _, _)
ScanFrom(st, t, i) ==
    IF i > Len(t) \/ st.raised # "no" THEN st
    ELSE ScanFrom(ScanEntry(st, t[i]), t, i + 1)

\* the write loop of lines 147-154 from key i on; stops where it raises
RECURSIVE WriteFrom(_, _, _)
WriteFrom(d, dict, i) ==
    IF i > Len(dict) THEN [ok |-> TRUE, disk |-> d]
    ELSE LET r == WriteOne(d, dict[i])
         IN  IF r.ok THEN WriteFrom(r.disk, dict, i + 1) ELSE r

\* _install_single_upip_compatible_from_url on a downloaded archive t
install_single(t, d) ==
    LET st == ScanFrom([content |-> <<>>, deps |-> <<>>, raised |-> "no"], t, 1)
    IN  IF st.raised # "no"
        THEN [outcome |-> st.raised, deps |-> <<>>, read |-> st.deps, disk |-> d]
        ELSE LET w == WriteFrom(d, st.content, 1)
             IN  [outcome |-> IF w.ok THEN "returned" ELSE "OSError",
                  deps |-> st.deps,
                  read |-> st.deps,
                  disk |-> w.disk]

\* archives the release urls may deliver
PlainArchive ==
    << Member(<<"pkg">>, "dir", <<>>),
       Member(<<"pkg", "/", "m.py">>, "file", << <<"x">> >>) >>

DepsArchive ==
    << Member(<<"pkg", "/", "pkg", ".egg-info", "/", "requires.txt">>, "file", ReqBytes),
       Member(<<"pkg", "/", "n.py">>, "file", << <<"z">> >>) >>

DepCArchive ==
    << Member(<<"pkg", "/", "pkg", ".egg-info", "/", "requires.txt">>, "file",
              << <<"c">> >>),
       Member(<<"other", "/", "m.py">>, "file", << <<"y">> >>) >>

SetupPyArchive ==
    << Member(<<"pkg", "/", "pkg", ".egg-info", "/", "requires.txt">>, "file", ReqBytes),
       Member(<<"pkg", "/", "s.py">>, "file", << <<"s">> >>),
       Member(<<"pkg", "/", "setup.py">>, "file", << <<"s">> >>) >>

TopLevelFileArchive ==
    << Member(<<"pkg", "/", "t.py">>, "file", << <<"t">> >>),
       Member(<<"README">>, "file", << <<"r">> >>) >>

\* what urlopen(url) of line 108 may give: an archive, or an error
Downloads ==
    {[status |-> "404"], [status |-> "unreachable"]}
        \cup {[status |-> "200", archive |-> t] :
                t \in {PlainArchive, DepsArchive, DepCArchive, SetupPyArchive,
                       TopLevelFileArchive}}

(***************************************************************************)
(* install, _install_all_upip_compatible, _fetch_metadata                  *)
(***************************************************************************)

MaxSpecs == 2

\* the raw spec strings a caller may pass
SpecStrings == {"a", "b", "b>=1.0"}

\* every raw spec string a run can meet (requires.txt names a, b and c)
AllSpecStrings == SpecStrings \cup {"a", "b", "c"}

SpecArgs ==
    {[isstr |-> TRUE, str |-> x, list |-> <<>>] : x \in SpecStrings}
        \cup {[isstr |-> FALSE, str |-> "", list |-> l] :
                l \in SeqsUpTo(SpecStrings, MaxSpecs)}

IndexArgs ==
    { <<>>, <<MP_ORG_INDEX>>, <<PYPI_INDEX>>, <<PYPI_INDEX, MP_ORG_INDEX>> }

NoDoc == Doc(NoVersion, <<>>)

Range(q) == {q[i] : i \in 1..Len(q)}

Last(q) == q[Len(q)]

\* install is called by an importing program: no command line was parsed
NoCli == [specs |-> <<>>, requirement_files |-> <<>>, index_url |-> "",
          quiet |-> FALSE, verbose |-> FALSE]

\* no inspector call was made yet
NoInspection == [outcome |-> "none", read |-> <<>>]

\* the locals of _fetch_metadata and its result, while no call is under way
FetchIdle ==
    /\ fi = 1
    /\ ver_specs = <<>>
    /\ current_version = NoVersion
    /\ ver = NoVersion
    /\ meta = NoDoc
    /\ queried = <<>>

Init ==
    /\ caller_spec \in SpecArgs
    /\ caller_index_urls \in IndexArgs
    /\ default_index_urls = <<MP_ORG_INDEX, PYPI_INDEX>>
    /\ sys_imported \in BOOLEAN
    /\ cli = NoCli
    /\ pc = "install"
    /\ err = "none"
    /\ exit_code = 0
    /\ stderr = <<>>
    /\ specs = <<>>
    /\ index_urls = <<>>
    /\ specs_to_be_processed = <<>>
    /\ installed_specs = {}
    /\ pip_specs = <<>>
    /\ spec = ""
    /\ FetchIdle
    /\ fetch_count = [x \in AllSpecStrings |-> 0]
    /\ inspect_count = [x \in AllSpecStrings |-> 0]
    /\ pip_calls = <<>>
    /\ processed = <<>>
    /\ discovered = <<>>
    /\ inspected = NoInspection
    /\ pip_returncode = -1
    /\ indexes_used = <<>>
    /\ disk = EmptyDisk
    /\ ArchiveIdle

\* an exception install does not catch leaves it
Propagate(kind) ==
    /\ pc' = "raised"
    /\ err' = kind
    /\ UNCHANGED <<exit_code, stderr>>

\* lines 52-54: print("ERROR:", e, file=sys.stderr); exit(1).  The name sys is
\* bound only when the module runs as __main__ (line 341).
CatchUserError(e) ==
    IF sys_imported
    THEN /\ stderr' = Append(stderr, [prefix |-> "ERROR:", e |-> e])
         /\ pc' = "exited"
         /\ exit_code' = 1
         /\ err' = err
    ELSE Propagate("NameError")

\* lines 55-57
CatchCalledProcessError ==
    /\ pc' = "exited"
    /\ exit_code' = 1
    /\ UNCHANGED <<err, stderr>>

\* lines 36-48 and 64-66
InstallEnter ==
    /\ pc = "install"
    /\ specs' = IF caller_spec.isstr THEN <<caller_spec.str>> ELSE caller_spec.list
    /\ index_urls' = IF caller_index_urls = <<>> THEN default_index_urls
                     ELSE caller_index_urls
    /\ installed_specs' = {}
    /\ specs_to_be_processed' = specs'
    /\ pip_specs' = <<>>
    /\ pc' = "loop"
    /\ indexes_used' = Append(indexes_used, index_urls')
    /\ UNCHANGED <<err, exit_code, stderr, spec, callerVars, fetchVars, logVars,
                   processed, discovered, inspected, pip_returncode, archVars, disk>>

\* a variant of AlreadyHandled that forgets the specs left to pip
AlreadyInstalled(s, installed, pips) == s \in installed

\* a variant of SpecsAfterQueueChange for a queue that is the list itself
SpecsSharedWithQueue(list, queue) == queue

\* line 65: the queue is a copy of the list `specs` names, so that list is
\* what it was after the queue was popped or appended to
SpecsAfterQueueChange(list, queue) == list

\* the list install's `specs` names after a step of the loop; it is the
\* caller's own list when the caller passed a list (lines 36-39)
StoreSpecs(queue) ==
    /\ specs' = SpecsAfterQueueChange(specs, queue)
    /\ caller_spec' = IF caller_spec.isstr THEN caller_spec
                      ELSE [caller_spec EXCEPT !.list = specs']
    /\ UNCHANGED <<caller_index_urls, default_index_urls, sys_imported, cli>>

\* a variant of AlreadyHandled that compares project names, not raw strings
AlreadyHandledByName(s, installed, pips) ==
    ParseReq(s).project_name \in
        {ParseReq(x).project_name : x \in installed \cup Range(pips)}

\* a variant of AlreadyHandled that never skips a spec
NeverHandled(s, installed, pips) == FALSE

\* the test of line 70
AlreadyHandled(s, installed, pips) == s \in installed \/ s \in Range(pips)

\* lines 68-76, and lines 102 and 50 when the queue is empty
LoopHead ==
    /\ pc = "loop"
    /\ IF specs_to_be_processed = <<>>
       THEN /\ pc' = IF pip_specs # <<>> THEN "pip" ELSE "returned"
            /\ UNCHANGED <<err, exit_code, stderr, loopVars, fetchVars, logVars,
                           histVars>>
       ELSE LET s == Head(specs_to_be_processed)
            IN  /\ specs_to_be_processed' = Tail(specs_to_be_processed)
                /\ spec' = s
                /\ UNCHANGED <<installed_specs, pip_specs, discovered, inspected,
                               pip_returncode, indexes_used>>
                /\ IF AlreadyHandled(s, installed_specs, pip_specs)
                   THEN UNCHANGED <<pc, err, exit_code, stderr, fetchVars, logVars,
                                    processed>>
                   ELSE /\ processed' = Append(processed, s)
                        /\ IF ~ParseReq(s).ok
                           THEN /\ Propagate("RequirementParseError")
                                /\ UNCHANGED <<fetchVars, logVars>>
                           ELSE /\ pc' = "fetch"
                                /\ fi' = 1
                                /\ ver_specs' = ParseReq(s).specs
                                /\ queried' = <<>>
                                /\ fetch_count' = [fetch_count EXCEPT ![s] = @ + 1]
                                /\ UNCHANGED <<err, exit_code, stderr,
                                               current_version, ver, meta,
                                               inspect_count, pip_calls>>
    /\ StoreSpecs(specs_to_be_processed')
    /\ UNCHANGED <<index_urls, archVars, disk>>

\* a request as the index saw it: which index, which document, the status
\* of the answer and the version the request was about (for the package
\* document: the version resolved from the answer)
Request(what, status, version) ==
    [index |-> index_urls[fi], what |-> what, status |-> status, ver |-> version]

\* a variant of Is404 that takes every HTTP error for "not found"
IsAnyHTTPError(status) == status \in {"404", "500"}

\* a variant of Is404 that never recognises "not found"
Is404Never(status) == FALSE

\* the test of line 225, for an HTTPError with the given code
Is404(status) == status = "404"

\* the document as received from index_urls[fi]
Served(doc) == [doc EXCEPT !.origin = index_urls[fi]]

\* one iteration of the for-loop of _fetch_metadata: lines 199-228
QueryIndex ==
    /\ pc = "fetch"
    /\ fi <= Len(index_urls)
    /\ \E resp \in MainResponses, vstatus \in VersionStatuses :
        LET req == ParseReq(spec)
            NextIndex(log) ==
                /\ queried' = log
                /\ fi' = fi + 1
                /\ UNCHANGED <<pc, err, exit_code, stderr, meta>>
            \* urlopen raised: an HTTPError for a status, a URLError otherwise
            Raised(log, status) ==
                /\ queried' = log
                /\ UNCHANGED meta
                /\ IF status # "unreachable" /\ Is404(status)
                   THEN /\ fi' = fi + 1
                        /\ UNCHANGED <<pc, err, exit_code, stderr>>
                   ELSE /\ fi' = fi
                        /\ Propagate(IF status = "unreachable" THEN "URLError"
                                     ELSE "HTTPError")
            Return(log, doc) ==
                /\ queried' = log
                /\ meta' = doc
                /\ pc' = "inspect"
                /\ UNCHANGED <<fi, err, exit_code, stderr>>
        IN  IF resp.status # "200"
            THEN /\ vstatus = "200"
                 /\ UNCHANGED <<ver_specs, current_version, ver>>
                 /\ Raised(Append(queried, Request("main", resp.status, NoVersion)),
                           resp.status)
            ELSE LET main_meta == Served(resp.doc)
                     v == resolve_version(req, main_meta)
                     log == Append(queried, Request("main", "200", v))
                 IN  /\ ver_specs' = IF ver_specs = <<>>
                                     THEN <<Clause("==", main_meta.info_version)>>
                                     ELSE ver_specs
                     /\ current_version' = main_meta.info_version
                     /\ ver' = v
                     /\ IF v = NoVersion
                        THEN /\ vstatus = "200"
                             /\ NextIndex(log)
                        ELSE IF v = main_meta.info_version
                        THEN /\ vstatus = "200"
                             /\ Return(log, main_meta)
                        ELSE IF vstatus = "200"
                        THEN Return(Append(log, Request("version", "200", v)),
                                    VersionDoc(main_meta, v))
                        ELSE Raised(Append(log, Request("version", vstatus, v)),
                                    vstatus)
    /\ UNCHANGED <<specs, index_urls, loopVars, logVars, histVars, callerVars,
                   archVars, disk>>

\* lines 230-232: no index is left; the UserError reaches install's handler
FetchFail ==
    /\ pc = "fetch"
    /\ fi > Len(index_urls)
    /\ CatchUserError([what |-> "Could not find",
                       project_name |-> ParseReq(spec).project_name,
                       indexes |-> index_urls])
    /\ UNCHANGED <<specs, index_urls, loopVars, fetchVars, logVars, histVars,
                   callerVars, archVars, disk>>

\* a variant of SingleTarGz that only asks for a first asset that is a tarball
FirstIsTarGz(assets) ==
    /\ Len(assets) >= 1
    /\ EndsWith(assets[1].url, <<".tar.gz">>)

\* the test of line 81 is the negation of this
SingleTarGz(assets) ==
    /\ Len(assets) = 1
    /\ EndsWith(assets[1].url, <<".tar.gz">>)

\* a variant of EnqueueDeps that puts each new dependency at the front
RECURSIVE EnqueueDepsFront(_, _, _)
EnqueueDepsFront(queue, dep_specs, installed) ==
    IF dep_specs = <<>> THEN queue
    ELSE LET dep_spec == Head(dep_specs)
         IN  IF dep_spec \notin installed /\ dep_spec \notin Range(queue)
             THEN EnqueueDepsFront(<<dep_spec>> \o queue, Tail(dep_specs), installed)
             ELSE EnqueueDepsFront(queue, Tail(dep_specs), installed)

\* lines 96-98: the new dependencies go to the back of the queue
RECURSIVE EnqueueDeps(_, _, _)
EnqueueDeps(queue, dep_specs, installed) ==
    IF dep_specs = <<>> THEN queue
    ELSE LET dep_spec == Head(dep_specs)
         IN  IF dep_spec \notin installed /\ dep_spec \notin Range(queue)
             THEN EnqueueDeps(Append(queue, dep_spec), Tail(dep_specs), installed)
             ELSE EnqueueDeps(queue, Tail(dep_specs), installed)

DropFetchFrame ==
    /\ fi' = 1
    /\ ver_specs' = <<>>
    /\ current_version' = NoVersion
    /\ ver' = NoVersion
    /\ meta' = NoDoc
    /\ queried' = <<>>

\* the specs line 98 appended to the queue, each with the spec whose archive
\* named it
Discoveries(queue, queue_after, from) ==
    [i \in 1..(Len(queue_after) - Len(queue)) |->
        [dep |-> queue_after[Len(queue) + i], from |-> from]]

\* a variant of ProcessMeta that enqueues the lines read from a rejected
\* archive
ProcessMetaKeepingDeps ==
    /\ pc = "inspect"
    /\ LET version == meta.info_version
       IN  IF ~HasRelease(meta, version)
           THEN /\ Propagate("KeyError")
                /\ UNCHANGED <<loopVars, logVars, disk, discovered, inspected>>
           ELSE IF ~SingleTarGz(Assets(meta, version))
           THEN /\ pip_specs' = Append(pip_specs, spec)
                /\ pc' = "loop"
                /\ UNCHANGED <<err, exit_code, stderr, specs_to_be_processed,
                               installed_specs, spec, logVars, disk, discovered,
                               inspected>>
           ELSE /\ inspect_count' = [inspect_count EXCEPT ![spec] = @ + 1]
                /\ UNCHANGED <<spec, fetch_count, pip_calls>>
                /\ \E got \in Downloads :
                    IF got.status # "200"
                    THEN /\ Propagate(IF got.status = "unreachable" THEN "URLError"
                                      ELSE "HTTPError")
                         /\ inspected' = [outcome |-> err', read |-> <<>>]
                         /\ UNCHANGED <<specs_to_be_processed, installed_specs,
                                        pip_specs, disk, discovered>>
                    ELSE LET r == install_single(got.archive, disk)
                         IN  /\ disk' = r.disk
                             /\ inspected' = [outcome |-> r.outcome, read |-> r.read]
                             /\ IF r.outcome = "returned"
                                THEN /\ installed_specs' = installed_specs \cup {spec}
                                     /\ specs_to_be_processed' =
                                            EnqueueDeps(specs_to_be_processed, r.deps,
                                                        installed_specs')
                                     /\ discovered' = discovered \o
                                            Discoveries(specs_to_be_processed,
                                                        specs_to_be_processed', spec)
                                     /\ pc' = "loop"
                                     /\ UNCHANGED <<pip_specs, err, exit_code, stderr>>
                                ELSE IF r.outcome = "NotUpipCompatible"
                                THEN /\ pip_specs' = Append(pip_specs, spec)
                                     /\ specs_to_be_processed' =
                                            EnqueueDeps(specs_to_be_processed, r.read,
                                                        installed_specs)
                                     /\ pc' = "loop"
                                     /\ UNCHANGED <<installed_specs, discovered, err,
                                                    exit_code, stderr>>
                                ELSE /\ Propagate(r.outcome)
                                     /\ UNCHANGED <<specs_to_be_processed,
                                                    installed_specs, pip_specs,
                                                    discovered>>
    \* the frame of _fetch_metadata and the local `meta` are dead from here on
    /\ DropFetchFrame
    /\ StoreSpecs(specs_to_be_processed')
    /\ UNCHANGED <<index_urls, processed, pip_returncode, indexes_used, archVars>>

\* lines 77-100: the rest of one iteration of the while-loop
ProcessMeta ==
    /\ pc = "inspect"
    /\ LET version == meta.info_version
       IN  IF ~HasRelease(meta, version)
           THEN /\ Propagate("KeyError")
                /\ UNCHANGED <<loopVars, logVars, disk, discovered, inspected>>
           ELSE IF ~SingleTarGz(Assets(meta, version))
           THEN /\ pip_specs' = Append(pip_specs, spec)
                /\ pc' = "loop"
                /\ UNCHANGED <<err, exit_code, stderr, specs_to_be_processed,
                               installed_specs, spec, logVars, disk, discovered,
                               inspected>>
           ELSE /\ inspect_count' = [inspect_count EXCEPT ![spec] = @ + 1]
                /\ UNCHANGED <<spec, fetch_count, pip_calls>>
                /\ \E got \in Downloads :
                    IF got.status # "200"
                    THEN /\ Propagate(IF got.status = "unreachable" THEN "URLError"
                                      ELSE "HTTPError")
                         /\ inspected' = [outcome |-> err', read |-> <<>>]
                         /\ UNCHANGED <<specs_to_be_processed, installed_specs,
                                        pip_specs, disk, discovered>>
                    ELSE LET r == install_single(got.archive, disk)
                         IN  /\ disk' = r.disk
                             /\ inspected' = [outcome |-> r.outcome, read |-> r.read]
                             /\ IF r.outcome = "returned"
                                THEN /\ installed_specs' = installed_specs \cup {spec}
                                     /\ specs_to_be_processed' =
                                            EnqueueDeps(specs_to_be_processed, r.deps,
                                                        installed_specs')
                                     /\ discovered' = discovered \o
                                            Discoveries(specs_to_be_processed,
                                                        specs_to_be_processed', spec)
                                     /\ pc' = "loop"
                                     /\ UNCHANGED <<pip_specs, err, exit_code, stderr>>
                                ELSE IF r.outcome = "NotUpipCompatible"
                                THEN /\ pip_specs' = Append(pip_specs, spec)
                                     /\ pc' = "loop"
                                     /\ UNCHANGED <<specs_to_be_processed,
                                                    installed_specs, discovered, err,
                                                    exit_code, stderr>>
                                ELSE /\ Propagate(r.outcome)
                                     /\ UNCHANGED <<specs_to_be_processed,
                                                    installed_specs, pip_specs,
                                                    discovered>>
    \* the frame of _fetch_metadata and the local `meta` are dead from here on
    /\ DropFetchFrame
    /\ StoreSpecs(specs_to_be_processed')
    /\ UNCHANGED <<index_urls, processed, pip_returncode, indexes_used, archVars>>

(***************************************************************************)
(* _install_with_pip                                                       *)
(***************************************************************************)

\* a variant of IndexUrlsAfterPops for a suitable_indexes that is the list
\* index_urls itself
IndexUrlsSharedWithSuitable(urls, suitable) == suitable

\* line 162: suitable_indexes is a list of its own, so the list index_urls
\* names is what it was after suitable_indexes was popped (lines 176-178)
IndexUrlsAfterPops(urls, suitable) == urls

\* the list install's `index_urls` names after _install_with_pip; it is the
\* caller's list, or DEFAULT_INDEX_URLS itself when the caller gave none
\* (lines 44-45)
StoreIndexUrls(urls) ==
    /\ index_urls' = urls
    /\ IF caller_index_urls = <<>>
       THEN /\ default_index_urls' = urls
            /\ UNCHANGED caller_index_urls
       ELSE /\ caller_index_urls' = urls
            /\ UNCHANGED default_index_urls
    /\ UNCHANGED <<caller_spec, sys_imported, cli>>

\* a variant of SuitableIndexes that keeps every index
AllIndexes(urls) == urls

\* line 162
SuitableIndexes(urls) == SelectSeq(urls, LAMBDA url : url # MP_ORG_INDEX)

\* lines 176-178
RECURSIVE ExtraIndexArgs(_)
ExtraIndexArgs(urls) ==
    IF urls = <<>> THEN <<>>
    ELSE <<"--extra-index-url", Head(urls)>> \o ExtraIndexArgs(Tail(urls))

\* a variant of PipCommand that hands over the first spec only
PipCommandFirstSpec(pips, target_dir, suitable_indexes) ==
    <<"sys.executable", "-m", "pip">>
        \o <<"--no-input", "--no-color", "--disable-pip-version-check", "install",
             "--upgrade", "--target", target_dir>>
        \o <<"--index-url", Head(suitable_indexes)>>
        \o ExtraIndexArgs(Tail(suitable_indexes))
        \o <<Head(pips)>>

\* lines 166-188: the command line of the pip process
PipCommand(pips, target_dir, suitable_indexes) ==
    <<"sys.executable", "-m", "pip">>
        \o <<"--no-input", "--no-color", "--disable-pip-version-check", "install",
             "--upgrade", "--target", target_dir>>
        \o <<"--index-url", Head(suitable_indexes)>>
        \o ExtraIndexArgs(Tail(suitable_indexes))
        \o pips

\* the first segment of a path below target_dir: an os.listdir name
TopName(path) == DistName(path)

\* what a successful pip run may add to the target directory
PipOutputs ==
    { [p \in {<<"q.py">>} |-> FileNode(<< <<"q">> >>)],
      [p \in {<<"q.py">>, <<"q-1.0", ".dist-info">>,
              <<"q-1.0", ".dist-info", "/", "METADATA">>} |->
            IF p = <<"q-1.0", ".dist-info">> THEN DirNode
            ELSE FileNode(<< <<"q">> >>)] }

\* pip install --upgrade --target: the new files replace what was there
PipWrite(d, out) ==
    [p \in DOMAIN d \cup DOMAIN out |-> IF p \in DOMAIN out THEN out[p] ELSE d[p]]

\* lines 190-192: the names of target_dir that end with .dist-info
DistInfoNames(d) ==
    {TopName(p) : p \in {q \in DOMAIN d : EndsWith(TopName(q), <<".dist-info">>)}}

\* a variant of RemoveDistInfo that removes nothing
KeepDistInfo(d) == d

\* shutil.rmtree of every such name
RemoveDistInfo(d) ==
    [p \in {q \in DOMAIN d : TopName(q) \notin DistInfoNames(d)} |-> d[p]]

\* lines 51 and 159-192
InstallWithPip ==
    /\ pc = "pip"
    /\ LET suitable_indexes == SuitableIndexes(index_urls)
       IN  IF suitable_indexes = <<>>
           THEN /\ CatchUserError([what |-> "No suitable indexes for pip",
                                   project_name |-> "", indexes |-> <<>>])
                /\ StoreIndexUrls(index_urls)
                /\ UNCHANGED <<pip_calls, pip_returncode, disk>>
           ELSE IF ~sys_imported
           THEN \* sys.executable of line 182
                /\ Propagate("NameError")
                /\ StoreIndexUrls(IndexUrlsAfterPops(index_urls, <<>>))
                /\ UNCHANGED <<pip_calls, pip_returncode, disk>>
           ELSE /\ pip_calls' = Append(pip_calls,
                                       PipCommand(pip_specs, "target", suitable_indexes))
                /\ StoreIndexUrls(IndexUrlsAfterPops(index_urls, <<>>))
                /\ \E returncode \in {0, 1} :
                    /\ pip_returncode' = returncode
                    /\ IF returncode # 0
                       THEN \* a failed pip may have written some of its files
                            /\ CatchCalledProcessError
                            /\ \E out \in PipOutputs \cup {EmptyDisk} :
                                   disk' = PipWrite(disk, out)
                       ELSE \E out \in PipOutputs :
                           LET d == PipWrite(disk, out)
                           IN  IF \E n \in DistInfoNames(d) :
                                       n \in DOMAIN d /\ ~d[n].isdir
                               THEN \* rmtree of a file
                                    /\ Propagate("NotADirectoryError")
                                    /\ disk' = d
                               ELSE /\ disk' = RemoveDistInfo(d)
                                    /\ pc' = "returned"
                                    /\ UNCHANGED <<err, exit_code, stderr>>
    /\ UNCHANGED <<specs, loopVars, fetchVars, fetch_count, inspect_count,
                   processed, discovered, inspected, indexes_used, archVars>>

Next ==
    \/ InstallEnter
    \/ LoopHead
    \/ QueryIndex
    \/ FetchFail
    \/ ProcessMeta
    \/ InstallWithPip

Spec == Init /\ [][Next]_vars

\* a script run's call of install with the default indexes
InitLive ==
    /\ Init
    /\ sys_imported
    /\ caller_index_urls = <<>>

\* the run is sequential and blocking: a step that can be taken is taken
SpecLive == InitLive /\ [][Next]_vars /\ WF_vars(Next)

(***************************************************************************)
(* install called again by the same program, with the same arguments       *)
(***************************************************************************)

MaxCalls == 2

InitCalls ==
    /\ Init
    /\ caller_spec \in {[isstr |-> TRUE, str |-> "a", list |-> <<>>],
                        [isstr |-> FALSE, str |-> "", list |-> <<"a", "b">>]}
    /\ caller_index_urls \in {<<>>, <<PYPI_INDEX, MP_ORG_INDEX>>}

\* the program that imported the module calls install once more, with the
\* objects it passed before, after the earlier call returned, exited
\* (SystemExit) or raised; the frames and the logs of the earlier call are gone
CallAgain ==
    /\ pc \in {"returned", "exited", "raised"}
    /\ Len(indexes_used) < MaxCalls
    /\ pc' = "install"
    /\ err' = "none"
    /\ exit_code' = 0
    /\ stderr' = <<>>
    /\ specs' = <<>>
    /\ index_urls' = <<>>
    /\ specs_to_be_processed' = <<>>
    /\ installed_specs' = {}
    /\ pip_specs' = <<>>
    /\ spec' = ""
    /\ DropFetchFrame
    /\ fetch_count' = [x \in AllSpecStrings |-> 0]
    /\ inspect_count' = [x \in AllSpecStrings |-> 0]
    /\ pip_calls' = <<>>
    /\ processed' = <<>>
    /\ discovered' = <<>>
    /\ inspected' = NoInspection
    /\ pip_returncode' = -1
    /\ UNCHANGED <<callerVars, indexes_used, archVars, disk>>

NextCalls == CallAgain \/ Next

SpecCalls == InitCalls /\ [][NextCalls]_vars

(***************************************************************************)
(* main: the module run as a script                                        *)
(***************************************************************************)

\* a file named with -r: whether os.path.isfile holds, and its lines
ReqFile(exists, lines) == [exists |-> exists, lines |-> lines]

MissingFile == ReqFile(FALSE, <<>>)

\* a requirements file with a spec, a blank line, a comment and a spec with
\* white space around it
SomeFile ==
    ReqFile(TRUE, << <<"b">>, <<>>, <<"#", "x">>, <<" ", "b>=1.0", "\t">> >>)

\* _read_requirements: lines 235-246
read_requirements(req_file) ==
    IF ~req_file.exists
    THEN [raised |-> TRUE, result |-> <<>>]
    ELSE [raised |-> FALSE, result |-> RequireLines(req_file.lines)]

\* lines 311-313: all_specs after the files from position i on were read;
\* stops at the first file that is missing
RECURSIVE ExtendAll(_, _, _)
ExtendAll(all_specs, files, i) ==
    IF i > Len(files) THEN [raised |-> FALSE, all_specs |-> all_specs]
    ELSE LET r == read_requirements(files[i])
         IN  IF r.raised THEN [raised |-> TRUE, all_specs |-> all_specs]
             ELSE ExtendAll(all_specs \o r.result, files, i + 1)

\* the command lines main is run on
CliArgs ==
    {[specs |-> <<"a">>, requirement_files |-> f, index_url |-> u,
      quiet |-> q, verbose |-> q] :
        f \in {<<>>, <<MissingFile>>, <<SomeFile>>, <<SomeFile, MissingFile>>},
        u \in {"", MP_ORG_INDEX, PYPI_INDEX},
        q \in BOOLEAN}

InitCli ==
    /\ cli \in CliArgs
    /\ sys_imported = TRUE
    /\ pc = "main"
    /\ caller_spec = [isstr |-> FALSE, str |-> "", list |-> <<>>]
    /\ caller_index_urls = <<>>
    /\ default_index_urls = <<MP_ORG_INDEX, PYPI_INDEX>>
    /\ err = "none"
    /\ exit_code = 0
    /\ stderr = <<>>
    /\ specs = <<>>
    /\ index_urls = <<>>
    /\ specs_to_be_processed = <<>>
    /\ installed_specs = {}
    /\ pip_specs = <<>>
    /\ spec = ""
    /\ FetchIdle
    /\ fetch_count = [x \in AllSpecStrings |-> 0]
    /\ inspect_count = [x \in AllSpecStrings |-> 0]
    /\ pip_calls = <<>>
    /\ processed = <<>>
    /\ discovered = <<>>
    /\ inspected = NoInspection
    /\ pip_returncode = -1
    /\ indexes_used = <<>>
    /\ disk = EmptyDisk
    /\ ArchiveIdle

\* main, lines 309-337, up to its call of install.  all_specs is the list
\* args.specs itself, extended in place; the UserError of _read_requirements
\* is raised outside install's try statement
Main ==
    /\ pc = "main"
    /\ LET read == ExtendAll(cli.specs, cli.requirement_files, 1)
       IN  /\ cli' = [cli EXCEPT !.specs = read.all_specs]
           /\ IF read.raised
              THEN /\ Propagate("UserError")
                   /\ UNCHANGED <<caller_spec, caller_index_urls>>
              ELSE IF cli.quiet /\ cli.verbose
              THEN /\ stderr' = Append(stderr,
                        [prefix |-> "",
                         e |-> [what |-> "Can't be quiet and verbose at the same time",
                                project_name |-> "", indexes |-> <<>>]])
                   /\ pc' = "exited"
                   /\ exit_code' = 1
                   /\ UNCHANGED <<err, caller_spec, caller_index_urls>>
              ELSE /\ caller_spec' = [isstr |-> FALSE, str |-> "",
                                      list |-> read.all_specs]
                   /\ caller_index_urls' = IF cli.index_url # ""
                                           THEN <<cli.index_url>>
                                           ELSE default_index_urls
                   /\ pc' = "install"
                   /\ UNCHANGED <<err, exit_code, stderr>>
    /\ UNCHANGED <<default_index_urls, sys_imported, specs, index_urls, loopVars,
                   fetchVars, logVars, histVars, archVars, disk>>

NextCli == Main \/ Next

SpecCli == InitCli /\ [][NextCli]_vars

(***************************************************************************)
(* _resolve_version on its own: a requirement and a package document       *)
(***************************************************************************)

\* the requirements _resolve_version is applied to
ResolveSpecs == {"a", "b>=1.0", "c==0.9", "b>=0.10,!=1.0"}

\* what the releases mapping may hold for one version
ReleaseKinds == {"absent", "empty", "one", "two"}

\* the releases mapping with the given kind for each of the four versions,
\* in the document's order
ReleasesOf(kinds) ==
    LET versions == <<"2.0b1", "0.10", "1.0", "0.9">>
        assets(k) == CASE k = "empty" -> <<>>
                       [] k = "one"   -> <<Asset(TarGzUrl)>>
                       [] k = "two"   -> <<Asset(TarGzUrl), Asset(WheelUrl)>>
        entry(i) == Release(versions[i], assets(kinds[i]))
    IN  [i \in 1..Cardinality({j \in 1..4 : kinds[j] # "absent"}) |->
            entry(CHOOSE j \in 1..4 :
                    /\ kinds[j] # "absent"
                    /\ Cardinality({h \in 1..j : kinds[h] # "absent"}) = i)]

ResolveDocs == {Doc("1.0", ReleasesOf(kinds)) : kinds \in [1..4 -> ReleaseKinds]}

InitResolve ==
    /\ pc = "resolve"
    /\ spec \in ResolveSpecs
    /\ meta \in ResolveDocs
    /\ ver = NoVersion
    /\ fi = 1
    /\ ver_specs = <<>>
    /\ current_version = NoVersion
    /\ queried = <<>>
    /\ caller_spec = [isstr |-> TRUE, str |-> spec, list |-> <<>>]
    /\ caller_index_urls = <<>>
    /\ default_index_urls = <<MP_ORG_INDEX, PYPI_INDEX>>
    /\ sys_imported = TRUE
    /\ cli = NoCli
    /\ err = "none"
    /\ exit_code = 0
    /\ stderr = <<>>
    /\ specs = <<spec>>
    /\ index_urls = default_index_urls
    /\ specs_to_be_processed = <<>>
    /\ installed_specs = {}
    /\ pip_specs = <<>>
    /\ fetch_count = [x \in AllSpecStrings |-> 0]
    /\ inspect_count = [x \in AllSpecStrings |-> 0]
    /\ pip_calls = <<>>
    /\ processed = <<>>
    /\ discovered = <<>>
    /\ inspected = NoInspection
    /\ pip_returncode = -1
    /\ indexes_used = <<index_urls>>
    /\ disk = EmptyDisk
    /\ ArchiveIdle

\* line 210: ver = _resolve_version(req, main_meta)
ResolveVersion ==
    /\ pc = "resolve"
    /\ ver' = resolve_version(ParseReq(spec), meta)
    /\ pc' = "resolved"
    /\ UNCHANGED <<spec, meta, fi, ver_specs, current_version, queried, callerVars,
                   err, exit_code, stderr, specs, index_urls,
                   specs_to_be_processed, installed_specs, pip_specs, logVars,
                   histVars, archVars, disk>>

\* the same call once more, on the same requirement and document
ResolveAgain ==
    /\ pc = "resolved"
    /\ ver' = resolve_version(ParseReq(spec), meta)
    /\ pc' = "resolved again"
    /\ UNCHANGED <<spec, meta, fi, ver_specs, current_version, queried, callerVars,
                   err, exit_code, stderr, specs, index_urls,
                   specs_to_be_processed, installed_specs, pip_specs, logVars,
                   histVars, archVars, disk>>

NextResolve == ResolveVersion \/ ResolveAgain

SpecResolve == InitResolve /\ [][NextResolve]_vars

(***************************************************************************)
(* _install_with_pip on its own: install has reached line 51 with a        *)
(* fallback list, an index list and a target directory                     *)
(***************************************************************************)

MaxIndexes == 3

\* the sequences of S without repetition
NoRepeats(S, n) ==
    {q \in SeqsUpTo(S, n) : \A i, j \in 1..Len(q) : i # j => q[i] # q[j]}

\* target directories pip may be run on: empty; holding a lightweight
\* install; holding the metadata directory of an earlier pip run; holding a
\* regular file of such a name
PipDisks ==
    { EmptyDisk,
      [p \in {<<"m.py">>} |-> FileNode(<< <<"x">> >>)],
      [p \in {<<"m.py">>, <<"old-0.1", ".dist-info">>,
              <<"old-0.1", ".dist-info", "/", "RECORD">>} |->
            IF p = <<"old-0.1", ".dist-info">> THEN DirNode
            ELSE FileNode(<< <<"o">> >>)],
      [p \in {<<"notes", ".dist-info">>} |-> FileNode(<< <<"n">> >>)] }

\* every spec of the caller's list was left to pip without an inspector call
InitPip ==
    /\ pc = "pip"
    /\ pip_specs \in NoRepeats(SpecStrings, MaxSpecs) \ {<<>>}
    /\ index_urls \in
            SeqsUpTo({MP_ORG_INDEX, PYPI_INDEX, OTHER_INDEX}, MaxIndexes) \ {<<>>}
    /\ disk \in PipDisks
    /\ sys_imported \in BOOLEAN
    /\ cli = NoCli
    /\ caller_spec = [isstr |-> FALSE, str |-> "", list |-> pip_specs]
    /\ caller_index_urls = index_urls
    /\ default_index_urls = <<MP_ORG_INDEX, PYPI_INDEX>>
    /\ specs = pip_specs
    /\ err = "none"
    /\ exit_code = 0
    /\ stderr = <<>>
    /\ specs_to_be_processed = <<>>
    /\ installed_specs = {}
    /\ spec = pip_specs[Len(pip_specs)]
    /\ FetchIdle
    /\ fetch_count = [x \in AllSpecStrings |-> IF x \in Range(pip_specs) THEN 1 ELSE 0]
    /\ inspect_count = [x \in AllSpecStrings |-> 0]
    /\ pip_calls = <<>>
    /\ processed = pip_specs
    /\ discovered = <<>>
    /\ inspected = NoInspection
    /\ pip_returncode = -1
    /\ indexes_used = <<index_urls>>
    /\ ArchiveIdle

NextPip == InstallWithPip

SpecPip == InitPip /\ [][NextPip]_vars

(***************************************************************************)
(* Properties of the inspector (checked under SpecArchive)                 *)
(***************************************************************************)

Ended == ipc \in {"returned", "NotUpipCompatible", "TypeError", "OSError"}

Rel(i) == RelName(tar[i].name)

\* some member is a setup.py at any depth below its distribution root
HasSetupPyAnywhere ==
    \E i \in 1..Len(tar) :
        Rel(i) = <<"setup.py">> \/ EndsWith(Rel(i), <<"/", "setup.py">>)

\* some member's root-relative name is exactly setup.py
HasSetupPyAtRoot == \E i \in 1..Len(tar) : Rel(i) = <<"setup.py">>

\* C1 as stated: an archive with a setup.py at any depth below the
\* distribution root leaves nothing written once the call has ended.
C1_AnyDepthNothingWritten == (Ended /\ HasSetupPyAnywhere) => disk = disk0

\* C1 amended: an archive with a member whose root-relative name is exactly
\* setup.py, at any position, leaves the target directory as it was once the
\* call has ended.
C1_RootSetupPyNothingWritten == (Ended /\ HasSetupPyAtRoot) => disk = disk0

\* the call was rejected at a setup.py met in the middle of the archive,
\* after members had been staged
C1_Witness ==
    /\ ipc = "NotUpipCompatible"
    /\ 1 < pos /\ pos < Len(tar)
    /\ content # <<>>
    /\ disk = disk0

\* C2: write-after-validate.  Nothing is written while members are still
\* being walked; the write loop runs only after every member was walked; no
\* member named exactly setup.py is ever walked past; and the call that met
\* one has raised NotUpipCompatible with the disk as before the call.
C2_WriteAfterValidate ==
    /\ ipc \in {"walk", "NotUpipCompatible", "TypeError"} => disk = disk0
    /\ ipc \in {"write", "returned", "OSError"} => pos = Len(tar) + 1
    /\ \A i \in 1..Len(tar) : i < pos => Rel(i) # <<"setup.py">>
    /\ (pos <= Len(tar) /\ Rel(pos) = <<"setup.py">>)
            => ipc \in {"walk", "NotUpipCompatible"}
    /\ ipc = "NotUpipCompatible"
            => (pos <= Len(tar) /\ Rel(pos) = <<"setup.py">> /\ disk = disk0)

\* setup.py is the last member of a full-length archive whose earlier
\* members were all staged, and the call has raised
C2_Witness ==
    /\ ipc = "NotUpipCompatible"
    /\ pos = Len(tar)
    /\ Len(content) = MaxEntries - 1

\* the member is on disk at its root-relative path, as its kind demands
Appears(info) ==
    LET rel == RelName(info.name)
    IN  IF info.type = "dir"
        THEN rel = <<>> \/ (rel \in DOMAIN disk /\ disk[rel].isdir)
        ELSE IF info.type = "file"
        THEN rel \in DOMAIN disk /\ ~disk[rel].isdir /\ disk[rel].data = info.bytes
        ELSE rel \in DOMAIN disk

\* C3 as stated: after a return on an archive without setup.py, every member
\* that is not below an .egg-info path segment is on disk at its
\* root-relative path, whatever its kind and distribution root.
C3_EveryMemberAppears ==
    (ipc = "returned" /\ ~HasSetupPyAnywhere) =>
        \A i \in 1..Len(tar) :
            ~Contains(Rel(i), <<".egg-info", "/">>) => Appears(tar[i])

\* the member is a directory or a regular file whose root-relative name
\* does not contain .egg-info
Stageable(i) ==
    /\ tar[i].type \in {"dir", "file"}
    /\ ~Contains(Rel(i), <<".egg-info">>)

\* C3 amended: after a return on an archive with no member named exactly
\* setup.py, every directory or regular-file member whose root-relative name
\* does not contain .egg-info, and which no later such member with the same
\* root-relative name replaces, is on disk at that path: a directory as a
\* directory, a file with its full content.
C3_StagedMembersAppear ==
    (ipc = "returned" /\ ~HasSetupPyAtRoot) =>
        \A i \in 1..Len(tar) :
            (/\ Stageable(i)
             /\ \A j \in (i + 1)..Len(tar) : ~(Stageable(j) /\ Rel(j) = Rel(i)))
                => Appears(tar[i])

\* the call returned after writing a directory and a file below it
C3_Witness ==
    /\ ipc = "returned"
    /\ Len(content) >= 2
    /\ <<"sub", "/", "n.py">> \in DOMAIN disk
    /\ disk # disk0

\* the lines of one file that are neither blank nor comments, stripped
RECURSIVE SpecLines(_)
SpecLines(lines) ==
    IF lines = <<>> THEN <<>>
    ELSE IF Strip(Head(lines)) = <<>> \/ Head(Strip(Head(lines))) = "#"
         THEN SpecLines(Tail(lines))
         ELSE <<Decode(Strip(Head(lines)))>> \o SpecLines(Tail(lines))

\* the spec lines of the members i..Len(tar) whose name ends with the suffix
RECURSIVE LinesOfSuffixed(_)
LinesOfSuffixed(i) ==
    IF i > Len(tar) THEN <<>>
    ELSE IF EndsWith(Rel(i), <<".egg-info", "/", "requires.txt">>)
         THEN SpecLines(tar[i].bytes) \o LinesOfSuffixed(i + 1)
         ELSE LinesOfSuffixed(i + 1)

\* the spec lines of the members i..Len(tar) whose name contains the pattern
RECURSIVE LinesOfMatching(_)
LinesOfMatching(i) ==
    IF i > Len(tar) THEN <<>>
    ELSE IF /\ Contains(Rel(i), <<".egg-info", "/", "requires.txt">>)
            /\ ~Contains(Rel(i), <<".egg-info", "/", "PKG-INFO">>)
         THEN SpecLines(tar[i].bytes) \o LinesOfMatching(i + 1)
         ELSE LinesOfMatching(i + 1)

\* C4 as stated: the returned list is exactly the non-empty, non-comment
\* lines of the members whose root-relative name ends with
\* .egg-info/requires.txt, in file order, and nothing else.
C4_DepsOfSuffixedMembers ==
    (ipc = "returned" /\ ~HasSetupPyAnywhere) => deps = LinesOfSuffixed(1)

\* C4 amended: the returned list is exactly the stripped, non-empty,
\* non-comment lines of the members whose root-relative name contains
\* .egg-info/requires.txt (and not .egg-info/PKG-INFO), in file order, and
\* nothing else.
C4_DepsOfMatchingMembers ==
    (ipc = "returned" /\ ~HasSetupPyAtRoot) => deps = LinesOfMatching(1)

\* the call returned the lines of requires.txt.orig and of requires.txt
C4_Witness ==
    /\ ipc = "returned"
    /\ deps = <<"c", "a", "b">>

(***************************************************************************)
(* Properties of the metadata client and the resolution loop (under Spec)  *)
(***************************************************************************)

\* C5: for a requirement without version constraints the version targeted
\* at an index is that index's current version (info.version), whatever
\* other versions the document's releases hold.
C5_UnconstrainedTargetsCurrent ==
    (pc = "inspect" /\ ParseReq(spec).specs = <<>>) =>
        /\ ver = current_version
        /\ meta.info_version = current_version

\* the number of package-document requests among the first k requests
Mains(k) == Cardinality({j \in 1..k : queried[j].what = "main"})

\* an answer after which the next index is tried: a 404, or a package
\* document in which no version matches
SoftFailure(e) ==
    \/ e.status = "404"
    \/ (e.what = "main" /\ e.status = "200" /\ e.ver = NoVersion)

\* C6: the indexes are queried in the caller's order, one after the other; a
\* 404 (on either document) or a no-match moves on to the next index and
\* never raises; the document returned comes from the first index that
\* answered without 404 and yielded a match, and no later index is queried.
C6_IndexOrderAndFallback ==
    /\ \A k \in 1..Len(queried) :
        /\ k = 1 => queried[k].what = "main"
        /\ Mains(k) <= Len(index_urls)
        /\ queried[k].index = index_urls[Mains(k)]
        /\ queried[k].what = "version" =>
                /\ queried[k - 1].what = "main"
                /\ queried[k - 1].status = "200"
                /\ queried[k - 1].ver = queried[k].ver
                /\ queried[k].ver # NoVersion
        /\ (k < Len(queried) /\ queried[k + 1].what = "main") =>
                SoftFailure(queried[k])
        /\ (k < Len(queried) /\ queried[k + 1].what = "version") =>
                (queried[k].status = "200" /\ queried[k].ver # NoVersion)
    /\ pc = "fetch" =>
        /\ fi = Mains(Len(queried)) + 1
        /\ queried # <<>> => SoftFailure(Last(queried))
    /\ pc = "inspect" =>
        /\ Last(queried).status = "200"
        /\ Last(queried).ver # NoVersion
        /\ Last(queried).index = index_urls[fi]
        /\ fi = Mains(Len(queried))
        /\ meta.origin = index_urls[fi]
        /\ meta.info_version = Last(queried).ver
    /\ (pc = "raised" /\ err \in {"HTTPError", "URLError"} /\ queried # <<>>) =>
        Last(queried).status \notin {"404", "200"}

\* the first index found the package but answered 404 for the version
\* document; the document returned is the second index's
C6_Witness ==
    /\ pc = "inspect"
    /\ Len(index_urls) = 2
    /\ Len(queried) >= 3
    /\ queried[2].what = "version" /\ queried[2].status = "404"
    /\ meta.origin = index_urls[2]

\* every index of the list was tried and none gave a document
FetchExhausted == pc \notin {"install", "fetch"} /\ fi > Len(index_urls)

\* C7: when every index answers 404 or has no matching version,
\* _fetch_metadata never returns a document, and install prints the
\* UserError to the error stream and exits with code 1 without starting pip.
C7_NotFoundReportedExit1 ==
    /\ fi > Len(index_urls) => pc \in {"install", "fetch", "exited", "raised"}
    /\ FetchExhausted =>
        /\ pc = "exited"
        /\ exit_code = 1
        /\ Len(stderr) = 1
        /\ stderr[1].prefix = "ERROR:"
        /\ stderr[1].e.what = "Could not find"
        /\ pip_calls = <<>>

\* C8: a non-404 HTTP failure or a connection failure during a metadata
\* fetch aborts the install at once: the exception leaves install, the queue,
\* the installed set, the fallback list and the files on disk stay as they
\* were, pip is not started, and nothing happens afterwards.
C8_TransportErrorAborts ==
    [][ /\ (/\ pc = "fetch"
            /\ queried' # queried
            /\ Last(queried').status \in {"500", "unreachable"})
           => /\ pc' = "raised"
              /\ err' = IF Last(queried').status = "500" THEN "HTTPError" ELSE "URLError"
              /\ fi' = fi
              /\ UNCHANGED <<loopVars, logVars, disk>>
              /\ pip_calls = <<>>
        /\ pc = "raised" => UNCHANGED vars ]_vars

\* the first index failed with a non-404 error while a second index and a
\* further spec were still waiting and an earlier spec's files were on disk
C8_Witness ==
    /\ pc = "raised"
    /\ err = "HTTPError"
    /\ Len(queried) = 1
    /\ Len(index_urls) = 2
    /\ installed_specs # {}
    /\ specs_to_be_processed # <<>>
    /\ disk # EmptyDisk

\* C9: a release of the returned version with no, several or a non-.tar.gz
\* asset sends the spec to the fallback list in the same step, without an
\* inspector call, a download or a write; a spec is inspected at most as
\* often as its metadata was fetched.
C9_NotSingleTarGzGoesToPip ==
    [][ /\ (/\ pc = "inspect"
            /\ \/ Len(Assets(meta, meta.info_version)) # 1
               \/ ~EndsWith(Assets(meta, meta.info_version)[1].url, <<".tar.gz">>))
           => /\ pip_specs' = Append(pip_specs, spec)
              /\ inspect_count' = inspect_count
              /\ disk' = disk
              /\ installed_specs' = installed_specs
              /\ pc' = "loop"
        /\ \A s \in AllSpecStrings : inspect_count'[s] <= fetch_count'[s] ]_vars

\* a spec went to pip without ever being inspected, after another spec had
\* been installed the lightweight way
C9_Witness ==
    /\ pc = "loop"
    /\ spec \in Range(pip_specs)
    /\ inspect_count[spec] = 0
    /\ installed_specs # {}

\* C10: every raw spec string has its metadata fetched and its archive
\* inspected at most once in a run; the installed set and the fallback list
\* are disjoint and the fallback list holds no spec twice.
C10_ProcessedAtMostOnce ==
    /\ \A s \in AllSpecStrings : fetch_count[s] <= 1 /\ inspect_count[s] <= 1
    /\ installed_specs \cap Range(pip_specs) = {}
    /\ \A i, j \in 1..Len(pip_specs) : i # j => pip_specs[i] # pip_specs[j]

\* the caller named "a" twice; "a" was installed once and its requires.txt
\* named "a" itself and "b", which was installed once too
C10_Witness ==
    /\ pc = "returned"
    /\ specs = <<"a", "a">>
    /\ installed_specs = {"a", "b"}
    /\ fetch_count["a"] = 1 /\ inspect_count["a"] = 1
    /\ fetch_count["b"] = 1 /\ inspect_count["b"] = 1

(***************************************************************************)
(* Properties of the resolution loop and the fallback (under SpecLive and  *)
(* Spec)                                                                   *)
(***************************************************************************)

\* the while-loop of _install_all_upip_compatible was left by line 102
LoopReturned == pc \in {"pip", "returned"}

\* an exception left the loop or install's handler ended the process
RunAborted == pc \in {"raised", "exited"}

\* C11: whatever the dependencies the archives name (a spec naming itself,
\* specs naming each other), the while-loop ends: unless a fetch or a
\* download fails, the queue is emptied and the loop returns; and a spec
\* popped again after it was installed or left to pip is dropped in that
\* step, with no fetch, no inspection and no write.
C11_CyclesTerminate ==
    /\ <>(LoopReturned \/ RunAborted)
    /\ [](LoopReturned => specs_to_be_processed = <<>>)
    /\ [][ (/\ pc = "loop"
            /\ specs_to_be_processed # <<>>
            /\ \/ Head(specs_to_be_processed) \in installed_specs
               \/ Head(specs_to_be_processed) \in Range(pip_specs))
           => /\ pc' = "loop"
              /\ specs_to_be_processed' = Tail(specs_to_be_processed)
              /\ UNCHANGED <<installed_specs, pip_specs, fetch_count,
                             inspect_count, disk>> ]_vars

\* "a" was asked for; its requires.txt named "a" itself and "b", and the
\* archives of "b" and "c" named specs that were installed already; the loop
\* returned with all three installed, each fetched once
C11_Witness ==
    /\ pc = "returned"
    /\ specs = <<"a">>
    /\ installed_specs = {"a", "b", "c"}
    /\ specs_to_be_processed = <<>>
    /\ \A s \in {"a", "b", "c"} : fetch_count[s] = 1

\* the specs reachable from the set S by the discoveries made from installed
\* specs
RECURSIVE DiscoveredFrom(_)
DiscoveredFrom(S) ==
    LET more == S \cup {discovered[k].dep : k \in
                    {j \in 1..Len(discovered) :
                        discovered[j].from \in S \cap installed_specs}}
    IN  IF more = S THEN S ELSE DiscoveredFrom(more)

\* C12: when the while-loop has returned, every spec of the caller's list is
\* either in the installed set or in the fallback list and not in both, and
\* every spec in either is one of the caller's or was named, directly or
\* through further such specs, by the archive of an installed spec.
C12_PartitionOnReturn ==
    LoopReturned =>
        /\ \A i \in 1..Len(specs) :
            (specs[i] \in installed_specs) # (specs[i] \in Range(pip_specs))
        /\ (installed_specs \cup Range(pip_specs)) \subseteq
                DiscoveredFrom(Range(specs))

\* the loop returned with both caller specs installed, a dependency of the
\* first installed too and a dependency of that one left to pip
C12_Witness ==
    /\ pc = "pip"
    /\ specs = <<"a", "b>=1.0">>
    /\ installed_specs = {"a", "b>=1.0", "b"}
    /\ pip_specs = <<"c">>
    /\ \E k \in 1..Len(discovered) :
            discovered[k] = [dep |-> "c", from |-> "b"]

\* the last n words of a command line
LastWords(cmd, n) == SubSeq(cmd, Len(cmd) - n + 1, Len(cmd))

\* C13: at most one pip process is started in a run; one was started only
\* after the while-loop returned with an empty queue and a non-empty fallback
\* list, nothing of the loop's state moved since, and the specs on its
\* command line are exactly the fallback list, in its order, right after
\* the index options.
C13_PipOnceAfterLoop ==
    /\ Len(pip_calls) <= 1
    /\ pc = "pip" => (specs_to_be_processed = <<>> /\ pip_specs # <<>>)
    /\ pip_calls # <<>> =>
        /\ pc \in {"returned", "exited", "raised"}
        /\ specs_to_be_processed = <<>>
        /\ pip_specs # <<>>
        /\ \A s \in installed_specs : inspect_count[s] = 1
        /\ LastWords(pip_calls[1], Len(pip_specs)) = pip_specs
        /\ LastWords(pip_calls[1], Len(pip_specs) + 2)[1]
                \in {"--index-url", "--extra-index-url"}

\* pip was started once, with two specs, after a lightweight install
C13_Witness ==
    /\ pc = "returned"
    /\ Len(pip_calls) = 1
    /\ Len(pip_specs) = 2
    /\ installed_specs # {}
    /\ disk # EmptyDisk

(***************************************************************************)
(* Properties of _install_with_pip (under SpecPip)                         *)
(***************************************************************************)

IndexWords == {MP_ORG_INDEX, PYPI_INDEX, OTHER_INDEX}

\* the index urls of a list that are not the micropython.org index, in order
RECURSIVE WithoutMpOrg(_)
WithoutMpOrg(urls) ==
    IF urls = <<>> THEN <<>>
    ELSE IF Head(urls) = "https://micropython.org/pi" THEN WithoutMpOrg(Tail(urls))
    ELSE <<Head(urls)>> \o WithoutMpOrg(Tail(urls))

\* the index urls on a command line, in order
RECURSIVE UrlsOf(_)
UrlsOf(cmd) ==
    IF cmd = <<>> THEN <<>>
    ELSE IF Head(cmd) \in IndexWords THEN <<Head(cmd)>> \o UrlsOf(Tail(cmd))
    ELSE UrlsOf(Tail(cmd))

\* the index options on a command line, in order
RECURSIVE IndexOptionsOf(_)
IndexOptionsOf(cmd) ==
    IF cmd = <<>> THEN <<>>
    ELSE IF Head(cmd) \in {"--index-url", "--extra-index-url"}
         THEN <<Head(cmd)>> \o IndexOptionsOf(Tail(cmd))
         ELSE IndexOptionsOf(Tail(cmd))

\* C14: the command line of a started pip never holds the micropython.org
\* index; its index urls are the other urls of the list in the list's order,
\* each right after its option, the first after --index-url and every
\* further one after --extra-index-url; and when the list holds no other url
\* the call ends with the UserError "No suitable indexes for pip" (which
\* install's handler takes) and no pip process was started.
C14_PipIndexes ==
    /\ \A c \in 1..Len(pip_calls) :
        LET cmd == pip_calls[c]
        IN  /\ MP_ORG_INDEX \notin Range(cmd)
            /\ UrlsOf(cmd) = WithoutMpOrg(index_urls)
            /\ \A k \in 1..Len(cmd) :
                    cmd[k] \in IndexWords =>
                        cmd[k - 1] \in {"--index-url", "--extra-index-url"}
            /\ \A k \in 1..Len(IndexOptionsOf(cmd)) :
                    IndexOptionsOf(cmd)[k] =
                        IF k = 1 THEN "--index-url" ELSE "--extra-index-url"
            /\ Len(IndexOptionsOf(cmd)) = Len(UrlsOf(cmd))
    /\ (pc # "pip" /\ WithoutMpOrg(index_urls) = <<>>) =>
        /\ pip_calls = <<>>
        /\ pip_returncode = -1
        /\ IF sys_imported
           THEN /\ pc = "exited"
                /\ stderr = <<[prefix |-> "ERROR:",
                               e |-> [what |-> "No suitable indexes for pip",
                                      project_name |-> "", indexes |-> <<>>]]>>
           ELSE pc = "raised" /\ err = "NameError"
    /\ (pc # "pip" /\ WithoutMpOrg(index_urls) # <<>> /\ sys_imported) =>
        Len(pip_calls) = 1

\* pip was started on a list that held the micropython.org index between two
\* other indexes
C14_Witness ==
    /\ pc = "returned"
    /\ index_urls = <<OTHER_INDEX, MP_ORG_INDEX, PYPI_INDEX>>
    /\ Len(pip_calls) = 1
    /\ UrlsOf(pip_calls[1]) = <<OTHER_INDEX, PYPI_INDEX>>

\* the names of the target directory itself
TopNames(d) == {DistName(p) : p \in DOMAIN d}

IsDistInfoName(n) == EndsWith(n, <<".dist-info">>)

\* C15: a pip call that returns leaves no entry of the target directory
\* whose name ends in .dist-info, and every other entry, with all below it,
\* is as the pip process left it; a pip process that exits non-zero ends
\* the run with exit code 1, nothing printed by install, and the target
\* directory as that process left it, .dist-info directories included.
C15_DistInfoRemoved ==
    [][ pc = "pip" =>
          /\ pc' = "returned" =>
                /\ pip_returncode' = 0
                /\ \A n \in TopNames(disk') : ~IsDistInfoName(n)
                /\ \E out \in PipOutputs :
                    LET left == PipWrite(disk, out)
                    IN  /\ DOMAIN disk' \subseteq DOMAIN left
                        /\ \A p \in DOMAIN left :
                            ~IsDistInfoName(DistName(p)) =>
                                (p \in DOMAIN disk' /\ disk'[p] = left[p])
          /\ pip_returncode' = 1 =>
                /\ pc' = "exited"
                /\ exit_code' = 1
                /\ stderr' = stderr
                /\ \A p \in DOMAIN disk : p \in DOMAIN disk'
                /\ \E out \in PipOutputs \cup {EmptyDisk} :
                        disk' = PipWrite(disk, out)
          /\ pip_returncode' = 0 => pc' \in {"returned", "raised"} ]_vars

\* pip returned on a directory that held an older .dist-info directory and
\* got a new one: both are gone, the other files are there
C15_Witness ==
    /\ pc = "returned"
    /\ pip_returncode = 0
    /\ <<"m.py">> \in DOMAIN disk
    /\ <<"q.py">> \in DOMAIN disk
    /\ disk[<<"m.py">>].data = << <<"o">> >>
    /\ \A n \in TopNames(disk) : ~IsDistInfoName(n)

(***************************************************************************)
(* Properties of _resolve_version (under SpecResolve)                      *)
(***************************************************************************)

\* the place of a version in version precedence, lowest first: 0.9 is older
\* than 0.10, and the beta of 2.0 is newer than 1.0
Precedence(version) ==
    CHOOSE i \in 1..4 : <<"0.9", "0.10", "1.0", "2.0b1">>[i] = version

\* the version satisfies one constraint clause
Satisfies(version, clause) ==
    CASE clause.op = ">=" -> Precedence(version) >= Precedence(clause.ver)
      [] clause.op = "==" -> version = clause.ver
      [] clause.op = "!=" -> version # clause.ver

\* the version keys of the document with a non-empty asset list that
\* satisfy every clause of the requirement
Candidates(req, doc) ==
    {doc.releases[i].version : i \in
        {j \in 1..Len(doc.releases) :
            /\ doc.releases[j].assets # <<>>
            /\ \A c \in 1..Len(req.specs) :
                    Satisfies(doc.releases[j].version, req.specs[c])}}

\* C16: the version returned is the candidate of highest precedence, where
\* the candidates are the version keys with a non-empty asset list that
\* satisfy every clause; none is returned exactly when there is no
\* candidate; and a second call on the same requirement and document
\* returns the same.
C16_ResolveMaximum ==
    /\ [](pc \in {"resolved", "resolved again"} =>
            LET cand == Candidates(ParseReq(spec), meta)
            IN  /\ (ver = NoVersion) <=> (cand = {})
                /\ ver # NoVersion =>
                    /\ ver \in cand
                    /\ \A other \in cand : Precedence(other) <= Precedence(ver)
                    /\ Assets(meta, ver) # <<>>)
    /\ [][pc = "resolved" => ver' = ver]_vars

\* the requirement has two clauses; the highest version that satisfies them
\* has no assets, an excluded version has assets, and 0.10 was returned
\* although 0.9 with assets is in the document
C16_Witness ==
    /\ pc = "resolved again"
    /\ spec = "b>=0.10,!=1.0"
    /\ HasRelease(meta, "2.0b1") /\ Assets(meta, "2.0b1") = <<>>
    /\ HasRelease(meta, "1.0") /\ Assets(meta, "1.0") # <<>>
    /\ HasRelease(meta, "0.9") /\ Assets(meta, "0.9") # <<>>
    /\ ver = "0.10"

(***************************************************************************)
(* Properties of the command line run (under SpecCli)                      *)
(***************************************************************************)

\* some file named with -r does not exist
NamesMissingFile ==
    \E i \in 1..Len(cli.requirement_files) : ~cli.requirement_files[i].exists

\* the run ended as install's handler ends it, with the given message
ReportedAsError(what) ==
    /\ pc = "exited"
    /\ exit_code = 1
    /\ stderr # <<>>
    /\ Last(stderr).prefix = "ERROR:"
    /\ Last(stderr).e.what = what

\* the loop returned a fallback list and the call of line 51 is over
PipPhaseOver ==
    /\ pc \in {"returned", "exited", "raised"}
    /\ specs_to_be_processed = <<>>
    /\ pip_specs # <<>>
    /\ queried = <<>>
    /\ err \in {"none", "UserError", "NameError"}

\* C17: in a run of the script no UserError leaves main unhandled, and each
\* of the three user-facing errors ends the run with its message printed to
\* the error stream after "ERROR:" and with exit code 1: a requirements file
\* that does not exist, a package found in no index, no index left for pip.
C17_UserErrorsReported ==
    /\ ~(pc = "raised" /\ err = "UserError")
    /\ (NamesMissingFile /\ pc # "main") => ReportedAsError("Can't find")
    /\ (index_urls # <<>> /\ FetchExhausted) => ReportedAsError("Could not find")
    /\ (PipPhaseOver /\ SuitableIndexes(index_urls) = <<>>)
        => ReportedAsError("No suitable indexes for pip")

(***************************************************************************)
(* Order and error handling of the resolution loop (under Spec)            *)
(***************************************************************************)

\* the first position of x in the sequence q
FirstAt(q, x) == CHOOSE i \in 1..Len(q) : q[i] = x /\ \A j \in 1..(i - 1) : q[j] # x

\* the deps in the order of their discovery
DiscoveredDeps == [k \in 1..Len(discovered) |-> discovered[k].dep]

\* C18: the specs are processed in the order they entered the queue: the
\* caller's specs first, in the caller's order, then the discovered
\* dependencies that are not the caller's, in the order of their (first)
\* discovery; and the fallback list holds its specs in the order they were
\* processed.
C18_FifoOrder ==
    /\ \A i, j \in 1..Len(processed) :
        i < j =>
            /\ processed[j] \in Range(specs) => processed[i] \in Range(specs)
            /\ (processed[i] \in Range(specs) /\ processed[j] \in Range(specs)) =>
                    FirstAt(specs, processed[i]) < FirstAt(specs, processed[j])
            /\ (processed[i] \notin Range(specs) /\ processed[j] \notin Range(specs)) =>
                    /\ processed[i] \in Range(DiscoveredDeps)
                    /\ processed[j] \in Range(DiscoveredDeps)
                    /\ FirstAt(DiscoveredDeps, processed[i])
                            < FirstAt(DiscoveredDeps, processed[j])
    /\ pip_specs = SelectSeq(processed, LAMBDA x : x \in Range(pip_specs))

\* both caller specs were processed before the dependency that the first
\* one's archive named, and that one before the dependency named by the
\* second one's archive; the two dependencies are the fallback list
C18_Witness ==
    /\ pc = "pip"
    /\ specs = <<"a", "b>=1.0">>
    /\ processed = <<"a", "b>=1.0", "b", "c">>
    /\ pip_specs = <<"b", "c">>
    /\ DiscoveredDeps = <<"b", "c">>

\* C19: a step in which the inspector rejects the archive with
\* NotUpipCompatible appends the spec to the fallback list, leaves the
\* installed set, the queue and the target directory as they were (so none
\* of the lines read from the archive is enqueued), raises nothing, and
\* leaves the run at the head of the loop.
C19_RejectedGoesToPip ==
    [][ (/\ pc = "inspect"
         /\ inspect_count' # inspect_count
         /\ inspected'.outcome = "NotUpipCompatible")
        => /\ pip_specs' = Append(pip_specs, spec)
           /\ spec \notin installed_specs'
           /\ UNCHANGED <<installed_specs, specs_to_be_processed, discovered, disk>>
           /\ pc' = "loop"
           /\ err' = "none" ]_vars

\* an archive with a requires.txt before its setup.py was rejected: the two
\* lines were read, neither was enqueued, the spec is in the fallback list
\* and another spec is still queued
C19_Witness ==
    /\ pc = "loop"
    /\ inspected = [outcome |-> "NotUpipCompatible", read |-> <<"a", "b">>]
    /\ spec = "a"
    /\ pip_specs = <<"a">>
    /\ installed_specs = {}
    /\ specs_to_be_processed = <<"b>=1.0">>

(***************************************************************************)
(* The caller's objects across calls (under SpecCalls)                     *)
(***************************************************************************)

\* the index list a call works on, given what the caller passed
ExpectedIndexes ==
    IF caller_index_urls = <<>> THEN <<MP_ORG_INDEX, PYPI_INDEX>>
    ELSE caller_index_urls

\* C20: no step of an install call, whatever its outcome, changes the
\* caller's spec list, the caller's index list or DEFAULT_INDEX_URLS; so
\* every call begins with the same index list, which for a caller that
\* gave none is micropython.org followed by pypi.org, and queries its
\* indexes in that order.
C20_CallerListsUnchanged ==
    /\ [][UNCHANGED <<caller_spec, caller_index_urls, default_index_urls>>]_vars
    /\ [](default_index_urls = <<MP_ORG_INDEX, PYPI_INDEX>>)
    /\ [](\A k \in 1..Len(indexes_used) : indexes_used[k] = ExpectedIndexes)
    /\ [](\A k \in 1..Len(queried) :
            queried[k].index = ExpectedIndexes[Mains(k)])

\* a first call with defaulted indexes ended after running pip on a list,
\* and the second call has queried both default indexes in order
C20_Witness ==
    /\ Len(indexes_used) = 2
    /\ caller_index_urls = <<>>
    /\ ~caller_spec.isstr
    /\ <<"q.py">> \in DOMAIN disk
    /\ pc = "inspect"
    /\ Len(queried) = 2
    /\ queried[1].index = MP_ORG_INDEX /\ queried[2].index = PYPI_INDEX

====
